---- MODULE Spec2Model ----
(***************************************************************************)
(* State-machine model of remoteRotator's Hub (hub package) and Proxy      *)
(* (proxy package), both held in src/hub/hub.go.                           *)
(*                                                                         *)
(*  SpecHub    : the Hub's client sets under concurrent Add/Remove calls,  *)
(*               the handleClose goroutine, the clients' listen loops and  *)
(*               one Broadcast caller.                                     *)
(*  SpecListen : ListenTCP, ListenWS and wsHandler.                        *)
(*  SpecProxy  : proxy.New (getInfo, dial, receive loop) and Info().       *)
(***************************************************************************)
EXTENDS Integers, Sequences, FiniteSets, TLC

\* ------------------------------------------------------------ bounds
Clients == {"c1", "c2"}          \* client objects, per transport
Tasks == {"t1", "t2"}            \* parallel tasks calling Add/Remove
MaxCalls == 2                    \* Add/Remove calls issued by the tasks
MaxBroadcasts == 2               \* Broadcast calls of the single caller

\* ------------------------------------------------------------ rotator.Status
\* The fields of rotator.Status as Proxy.Status() fills them.
MkStatus(n, az, azp, ov, el, elp) ==
    [Name |-> n, Azimuth |-> az, AzPreset |-> azp, AzimuthOverlap |-> ov,
     Elevation |-> el, ElPreset |-> elp]

\* The statuses the rotator reports, in the order it reports them.
StatusSeq ==
    << MkStatus("rot", 5, 5, FALSE, 120, 120),
       MkStatus("rot", 360, 90, FALSE, 0, 0),
       MkStatus("rot", 45, 90, TRUE, 7, 0),
       MkStatus("rot", 90, 90, TRUE, 7, 7) >>

\* ------------------------------------------------------------ fmt.Sprintf
DigitChar(d) == <<"0", "1", "2", "3", "4", "5", "6", "7", "8", "9">>[d + 1]

RECURSIVE Digits(_)
Digits(n) == IF n < 10 THEN <<DigitChar(n)>>
             ELSE Append(Digits(n \div 10), DigitChar(n % 10))

RECURSIVE ZeroPad(_, _)
ZeroPad(ds, w) == IF Len(ds) >= w THEN ds ELSE ZeroPad(<<"0">> \o ds, w)

\* A variant of the verb without the precision: %d.
FmtPlain(n) == IF n < 0 THEN <<"-">> \o Digits(-n) ELSE Digits(n)

\* %.3d : at least three digits, the sign in front of them.
FmtPrec3(n) == IF n < 0 THEN <<"-">> \o ZeroPad(Digits(-n), 3)
               ELSE ZeroPad(Digits(n), 3)

\* fmt.Sprintf("+0%.3d+0%.3d\r\n", s.Azimuth, s.Elevation)
FormatTCP(s) == <<"+", "0">> \o FmtPrec3(s.Azimuth) \o <<"+", "0">>
                \o FmtPrec3(s.Elevation) \o <<"\r", "\n">>

\* json.Marshal(s) of a rotator.Status: a JSON object holding the status
\* fields and nothing else (no "status" member, no event name).
MarshalStatus(s) ==
    [name |-> s.Name, azimuth |-> s.Azimuth, az_preset |-> s.AzPreset,
     azimuth_overlap |-> s.AzimuthOverlap, elevation |-> s.Elevation,
     el_preset |-> s.ElPreset]

\* ------------------------------------------------------------ state
VARIABLES
    \* Hub
    tcpClients,      \* hub.tcpClients: the keys of the map
    wsClients,       \* hub.wsClients
    wsEver,          \* every key hub.wsClients has ever held
    mutex,           \* hub.Mutex: "free" or the thread holding it
    tcpClosed,       \* TCP clients on which the Hub has called Close()
    wsClosed,        \* websocket clients on which the Hub has called Close()
    tcpLoops,        \* running client.listen goroutines per TCP client
    wsLoops,         \* running client.listen goroutines per websocket client
    task,            \* the tasks calling Add/Remove: position, call, client
    calls,           \* Add/Remove calls issued so far
    hc,              \* the handleClose goroutine
    bc,              \* the Broadcast caller: position, status, loop variable
    visited,         \* range loop: keys already produced in this pass
    fresh,           \* range loop: keys created during this pass
    crashed,         \* the process died (runtime fatal error or panic)
    \* Observations of the Hub's behaviour
    emitted,         \* statuses passed to Broadcast, in call order
    tcpReceived,     \* payloads written successfully, per TCP client
    wsReceived,      \* frames written successfully, per websocket client
    passStart,       \* client set when the current pass took the lock
    passOK,          \* clients written successfully in the current pass
    passFail,        \* clients whose write failed in the current pass
    tcpFailed,       \* TCP clients with a failed write and no Add since
    wsFailed,        \* websocket clients with a failed write and no Add since
    lateWrite,       \* <<transport, c>> written while c was in tcpFailed/wsFailed
    tcpRet,          \* AddTCPClient(c) returned; c not removed or failed since
    wsRet,           \* AddWsClient(c) returned; c not removed or failed since
    tcpOwed,         \* tcpRet at the Broadcast call, minus removed/failed/written
    wsOwed,          \* wsRet at the Broadcast call, minus removed/failed/written
    tcpStable,       \* registered before the first Broadcast, untouched since
    wsStable,
    \* Listeners
    ltcp,            \* the ListenTCP goroutine: position, bind result, client in hand
    lws,             \* the ListenWS goroutine: position, bind result
    tcpError,        \* number of close(tcpError) executed
    wsError,         \* number of close(wsError) executed
    accepted,        \* clients the listeners have created so far
    \* Proxy
    r,               \* the Proxy's cached fields
    conn,            \* r.conn: "nil", "open", or "ended" once its stream is over
    eventHandler,    \* r.eventHandler # nil
    pnew,            \* proxy.New: position and what it returned
    fetched,         \* what the info endpoint answered
    dials,           \* websocket dials attempted
    done,            \* number of close(done) executed
    prev,            \* the cache before the last frame was processed
    lastEvent,       \* the hub.Event decoded from the last frame
    lastCalls,       \* the handler invocations started for the last frame
    lastFrame,       \* the last frame ReadMessage returned
    lastWrites,      \* the cache fields assigned while processing the last frame
    lastReq,         \* the last command written on the connection, and its outcome
    \* TCP payload encoding
    payload,         \* a status and the data Sprintf builds from it
    \* Proxy: the cache under its RWMutex
    rw,              \* r.RWMutex: a writer holds it, number of readers holding it
    rx,              \* the receive loop inside a frame: position, status, block
    acc,             \* a goroutine calling Status() or Info(): position, fields read
    events,          \* frames the receive loop has taken, step by step
    reads            \* Status()/Info() calls made

hubState == <<tcpClients, wsClients, wsEver, mutex, tcpClosed, wsClosed,
              tcpLoops, wsLoops, task, calls, hc, bc,
              visited, fresh, crashed>>
hubObs == <<emitted, tcpReceived, wsReceived, passStart, passOK, passFail,
            tcpFailed, wsFailed, lateWrite, tcpRet, wsRet, tcpOwed, wsOwed,
            tcpStable, wsStable>>
hubVars == <<hubState, hubObs>>

lockVars == <<rw, rx, acc, events, reads>>
lsnVars == <<ltcp, lws, tcpError, wsError, accepted>>
proxyVars == <<r, conn, eventHandler, pnew, fetched, dials, done, prev,
               lastEvent, lastCalls, lastFrame, lastWrites, lastReq>>

vars == <<hubVars, lsnVars, proxyVars, payload, lockVars>>

\* NewHub: empty maps, unbuffered close channels, handleClose started.
NewHub ==
    /\ tcpClients = {} /\ wsClients = {} /\ wsEver = {}
    /\ mutex = "free"
    /\ tcpClosed = {} /\ wsClosed = {}
    /\ tcpLoops = [c \in Clients |-> 0] /\ wsLoops = [c \in Clients |-> 0]
    /\ task = [u \in Tasks |-> [pc |-> "idle", op |-> "none", c |-> "none"]]
    /\ calls = 0
    /\ hc = [pc |-> "select", t |-> "none", c |-> "none"]
    /\ bc = [pc |-> "idle", s |-> MkStatus("", 0, 0, FALSE, 0, 0), c |-> "none"]
    /\ visited = {} /\ fresh = {}
    /\ crashed = FALSE
    /\ emitted = <<>>
    /\ tcpReceived = [c \in Clients |-> <<>>]
    /\ wsReceived = [c \in Clients |-> <<>>]
    /\ passStart = {} /\ passOK = {} /\ passFail = {}
    /\ tcpFailed = {} /\ wsFailed = {} /\ lateWrite = {}
    /\ tcpRet = {} /\ wsRet = {} /\ tcpOwed = {} /\ wsOwed = {}
    /\ tcpStable = {} /\ wsStable = {}

\* ------------------------------------------------------------ helpers
tcpSet == <<tcpClients, tcpClosed>>
wsSet == <<wsClients, wsEver, wsClosed>>
loopVars == <<tcpLoops, wsLoops>>
iterVars == <<visited, fresh>>
passObs == <<passStart, passOK, passFail>>
tcpObs == <<tcpFailed, tcpRet, tcpOwed, tcpStable, tcpReceived>>
wsObs == <<wsFailed, wsRet, wsOwed, wsStable, wsReceived>>

Idle == [pc |-> "idle", op |-> "none", c |-> "none"]

\* if _, alreadyInMap := m[client]; alreadyInMap { delete(m, client) }
MapDeleteIfPresent(m, c) == IF c \in m THEN m \ {c} ELSE m

\* A variant of the insert that drops every other key.
MapInsertAlone(m, c) == {c}

\* m[client] = true
MapInsert(m, c) == m \cup {c}

\* The write-failure branch of a broadcast pass: delete(m, c).
MapDeleteFailed(m, c) == m \ {c}

\* ------------------------------------------------------------ Add/Remove callers
\* A task enters AddTCPClient, RemoveTCPClient, AddWsClient or RemoveWsClient.
\* AddWsClient takes no lock and goes straight to its first map access.
TaskCall(u, op, c) ==
    /\ ~crashed /\ task[u].pc = "idle" /\ calls < MaxCalls
    /\ task' = [task EXCEPT ![u] =
                  [pc |-> IF op = "AddWs" THEN "wsDelete" ELSE "lock",
                   op |-> op, c |-> c]]
    /\ calls' = calls + 1
    /\ UNCHANGED <<tcpSet, wsSet, mutex, loopVars, hc, bc, iterVars, crashed,
                   emitted, passObs, tcpObs, wsObs, lateWrite>>
    /\ UNCHANGED <<lsnVars, proxyVars, payload, lockVars>>

\* hub.Lock() at the head of AddTCPClient, RemoveTCPClient, RemoveWsClient.
TaskLock(u) ==
    /\ ~crashed /\ task[u].pc = "lock" /\ mutex = "free"
    /\ mutex' = u
    /\ task' = [task EXCEPT ![u].pc = "body"]
    /\ UNCHANGED <<tcpSet, wsSet, calls, loopVars, hc, bc, iterVars, crashed,
                   emitted, passObs, tcpObs, wsObs, lateWrite>>
    /\ UNCHANGED <<lsnVars, proxyVars, payload, lockVars>>

\* AddTCPClient between Lock and the deferred Unlock: dedupe, insert, start
\* the client's listen goroutine.
AddTCPClient(c) ==
    /\ tcpClients' = MapInsert(MapDeleteIfPresent(tcpClients, c), c)
    /\ tcpLoops' = [tcpLoops EXCEPT ![c] = @ + 1]
    /\ tcpFailed' = tcpFailed \ {c}
    /\ tcpRet' = tcpRet \cup {c}
    /\ tcpStable' = IF emitted = <<>> THEN tcpStable \cup {c} ELSE tcpStable \ {c}
    /\ UNCHANGED <<tcpClosed, tcpOwed, tcpReceived>>

\* A variant of RemoveTCPClient that empties the map.
RemoveTCPClientAll(c) ==
    /\ tcpClients' = {}
    /\ tcpClosed' = tcpClosed \cup {c}
    /\ tcpRet' = tcpRet \ {c}
    /\ tcpOwed' = tcpOwed \ {c}
    /\ tcpStable' = tcpStable \ {c}
    /\ UNCHANGED <<tcpFailed, tcpReceived>>

\* RemoveTCPClient between Lock and the deferred Unlock: delete, Close.
RemoveTCPClient(c) ==
    /\ tcpClients' = MapDeleteIfPresent(tcpClients, c)
    /\ tcpClosed' = tcpClosed \cup {c}
    /\ tcpRet' = tcpRet \ {c}
    /\ tcpOwed' = tcpOwed \ {c}
    /\ tcpStable' = tcpStable \ {c}
    /\ UNCHANGED <<tcpFailed, tcpReceived>>

\* RemoveWsClient between Lock and the deferred Unlock: delete, Close.
RemoveWsClient(c) ==
    /\ wsClients' = MapDeleteIfPresent(wsClients, c)
    /\ wsClosed' = wsClosed \cup {c}
    /\ wsRet' = wsRet \ {c}
    /\ wsOwed' = wsOwed \ {c}
    /\ wsStable' = wsStable \ {c}
    /\ UNCHANGED <<wsEver, wsFailed, wsReceived>>

TaskAddTCP(u) ==
    /\ ~crashed /\ task[u].pc = "body" /\ task[u].op = "AddTCP"
    /\ AddTCPClient(task[u].c)
    /\ mutex' = "free"
    /\ task' = [task EXCEPT ![u] = Idle]
    /\ UNCHANGED <<wsSet, calls, wsLoops, hc, bc,
                   iterVars, crashed, emitted, passObs, wsObs, lateWrite>>
    /\ UNCHANGED <<lsnVars, proxyVars, payload, lockVars>>

TaskRemoveTCP(u) ==
    /\ ~crashed /\ task[u].pc = "body" /\ task[u].op = "RemoveTCP"
    /\ RemoveTCPClient(task[u].c)
    /\ mutex' = "free"
    /\ task' = [task EXCEPT ![u] = Idle]
    /\ UNCHANGED <<wsSet, calls, loopVars, hc, bc, iterVars, crashed, emitted,
                   passObs, wsObs, lateWrite>>
    /\ UNCHANGED <<lsnVars, proxyVars, payload, lockVars>>

TaskRemoveWs(u) ==
    /\ ~crashed /\ task[u].pc = "body" /\ task[u].op = "RemoveWs"
    /\ RemoveWsClient(task[u].c)
    /\ mutex' = "free"
    /\ task' = [task EXCEPT ![u] = Idle]
    /\ UNCHANGED <<tcpSet, calls, loopVars, hc, bc, iterVars, crashed, emitted,
                   passObs, tcpObs, lateWrite>>
    /\ UNCHANGED <<lsnVars, proxyVars, payload, lockVars>>

\* ------------------------------------------------------------ AddWsClient
\* AddWsClient never takes the mutex.  Its two map accesses are steps of
\* their own, and either may overlap an access another goroutine makes to
\* hub.wsClients: a websocket broadcast pass in its range loop, a
\* RemoveWsClient holding the lock, or another AddWsClient.
WsAccessors(self) ==
    {u \in Tasks \ {self} :
        \/ task[u].pc \in {"wsDelete", "wsInsert"}
        \/ task[u].pc = "body" /\ task[u].op = "RemoveWs"}
    \cup (IF bc.pc = "wsRange" /\ self # "bc" THEN {"bc"} ELSE {})
    \cup (IF hc.pc = "body" /\ hc.t = "ws" /\ self # "hc" THEN {"hc"} ELSE {})

\* An unsynchronised map access overlapping another one is a data race.
\* What the Go runtime can do with it: the access lands as if atomic
\* ("ok"), the runtime detects it and throws a fatal error ("fatal"), or
\* the map is left inconsistent ("corrupt").
RaceOutcomes(self) ==
    IF WsAccessors(self) = {} THEN {"ok"} ELSE {"ok", "fatal", "corrupt"}

\* An inconsistent map: entries lost or stale entries back, a running
\* iterator skipping or repeating keys.
Corrupted(ever) ==
    /\ wsClients' \in SUBSET ever
    /\ visited' \in (IF bc.pc = "wsRange" THEN SUBSET Clients ELSE {visited})
    /\ fresh' = (IF bc.pc = "wsRange" THEN Clients ELSE fresh)

Fatal ==
    /\ crashed' = TRUE
    /\ UNCHANGED <<tcpSet, wsSet, mutex, task, calls, loopVars, hc, bc, iterVars,
                   emitted, passObs, tcpObs, wsObs, lateWrite>>

\* if _, alreadyInMap := hub.wsClients[client]; alreadyInMap { delete(...) }
AddWsDelete(u, o) ==
    /\ ~crashed /\ task[u].pc = "wsDelete" /\ o \in RaceOutcomes(u)
    /\ \/ o = "fatal" /\ Fatal
       \/ /\ o # "fatal"
          /\ \/ /\ o = "ok"
                /\ wsClients' = MapDeleteIfPresent(wsClients, task[u].c)
                /\ UNCHANGED iterVars
             \/ o = "corrupt" /\ Corrupted(wsEver)
          /\ wsStable' = wsStable \cap wsClients'
          /\ task' = [task EXCEPT ![u].pc = "wsInsert"]
          /\ UNCHANGED <<tcpSet, wsEver, wsClosed, mutex, calls, loopVars, hc, bc,
                         crashed, emitted, passObs, tcpObs, wsFailed, wsRet,
                         wsOwed, wsReceived, lateWrite>>
    /\ UNCHANGED <<lsnVars, proxyVars, payload, lockVars>>

\* hub.wsClients[client] = true; go client.listen(...); return.
\* A key created while a range loop runs may be produced or skipped.
AddWsInsert(u, o) ==
    /\ ~crashed /\ task[u].pc = "wsInsert" /\ o \in RaceOutcomes(u)
    /\ \/ o = "fatal" /\ Fatal
       \/ /\ o # "fatal"
          /\ wsEver' = wsEver \cup {task[u].c}
          /\ \/ /\ o = "ok"
                /\ wsClients' = MapInsert(wsClients, task[u].c)
                /\ IF bc.pc = "wsRange"
                   THEN /\ visited' = visited \ {task[u].c}
                        /\ fresh' = fresh \cup {task[u].c}
                   ELSE UNCHANGED iterVars
             \/ o = "corrupt" /\ Corrupted(wsEver')
          /\ wsLoops' = [wsLoops EXCEPT ![task[u].c] = @ + 1]
          /\ wsFailed' = wsFailed \ {task[u].c}
          /\ wsRet' = wsRet \cup {task[u].c}
          /\ wsStable' = (IF emitted = <<>> THEN wsStable \cup {task[u].c}
                          ELSE wsStable \ {task[u].c}) \cap wsClients'
          /\ task' = [task EXCEPT ![u] = Idle]
          /\ UNCHANGED <<tcpSet, wsClosed, mutex, calls, tcpLoops,
                         hc, bc, crashed, emitted, passObs, tcpObs,
                         wsOwed, wsReceived, lateWrite>>
    /\ UNCHANGED <<lsnVars, proxyVars, payload, lockVars>>

\* ------------------------------------------------------------ client.listen, handleClose
\* The inbound-command loop of a client: when its read fails (the peer
\* went away, or the connection was closed) it sends the client on the
\* Hub's close channel and ends.  The channel is unbuffered, so the send
\* completes only together with handleClose's receive.
listen(loops, c) == [loops EXCEPT ![c] = @ - 1]

\* case c := <-hub.closeTCPClient
HandleCloseRecvTCP(c) ==
    /\ ~crashed /\ hc.pc = "select" /\ tcpLoops[c] > 0
    /\ tcpLoops' = listen(tcpLoops, c)
    /\ hc' = [pc |-> "lock", t |-> "tcp", c |-> c]
    /\ UNCHANGED <<tcpSet, wsSet, mutex, task, calls, wsLoops,
                   bc, iterVars, crashed, emitted, passObs, tcpObs, wsObs, lateWrite>>
    /\ UNCHANGED <<lsnVars, proxyVars, payload, lockVars>>

\* case c := <-hub.closeWsClient
HandleCloseRecvWs(c) ==
    /\ ~crashed /\ hc.pc = "select" /\ wsLoops[c] > 0
    /\ wsLoops' = listen(wsLoops, c)
    /\ hc' = [pc |-> "lock", t |-> "ws", c |-> c]
    /\ UNCHANGED <<tcpSet, wsSet, mutex, task, calls, tcpLoops,
                   bc, iterVars, crashed, emitted, passObs, tcpObs, wsObs, lateWrite>>
    /\ UNCHANGED <<lsnVars, proxyVars, payload, lockVars>>

\* hub.Lock() of the Remove call handleClose makes.
HandleCloseLock ==
    /\ ~crashed /\ hc.pc = "lock" /\ mutex = "free"
    /\ mutex' = "hc"
    /\ hc' = [hc EXCEPT !.pc = "body"]
    /\ UNCHANGED <<tcpSet, wsSet, task, calls, loopVars, bc, iterVars, crashed,
                   emitted, passObs, tcpObs, wsObs, lateWrite>>
    /\ UNCHANGED <<lsnVars, proxyVars, payload, lockVars>>

HandleCloseRemoveTCP ==
    /\ ~crashed /\ hc.pc = "body" /\ hc.t = "tcp"
    /\ RemoveTCPClient(hc.c)
    /\ mutex' = "free"
    /\ hc' = [pc |-> "select", t |-> "none", c |-> "none"]
    /\ UNCHANGED <<wsSet, task, calls, loopVars, bc, iterVars, crashed, emitted,
                   passObs, wsObs, lateWrite>>
    /\ UNCHANGED <<lsnVars, proxyVars, payload, lockVars>>

HandleCloseRemoveWs ==
    /\ ~crashed /\ hc.pc = "body" /\ hc.t = "ws"
    /\ RemoveWsClient(hc.c)
    /\ mutex' = "free"
    /\ hc' = [pc |-> "select", t |-> "none", c |-> "none"]
    /\ UNCHANGED <<tcpSet, task, calls, loopVars, bc, iterVars, crashed, emitted,
                   passObs, tcpObs, lateWrite>>
    /\ UNCHANGED <<lsnVars, proxyVars, payload, lockVars>>

\* ------------------------------------------------------------ Broadcast
\* The single caller enters Broadcast(s).
Broadcast(s) ==
    /\ ~crashed /\ bc.pc = "idle" /\ Len(emitted) < MaxBroadcasts
    /\ s = StatusSeq[Len(emitted) + 1]
    /\ bc' = [pc |-> "tcpLock", s |-> s, c |-> "none"]
    /\ emitted' = Append(emitted, s)
    /\ tcpOwed' = tcpRet
    /\ wsOwed' = wsRet
    /\ UNCHANGED <<tcpSet, wsSet, mutex, task, calls, loopVars, hc, iterVars,
                   crashed, passObs, tcpFailed, tcpRet, tcpStable, tcpReceived,
                   wsFailed, wsRet, wsStable, wsReceived, lateWrite>>
    /\ UNCHANGED <<lsnVars, proxyVars, payload, lockVars>>

\* A variant of the pass that starts its range loop without the lock.
BroadcastTCPNoLock ==
    /\ ~crashed /\ bc.pc = "tcpLock"
    /\ bc' = [bc EXCEPT !.pc = "tcpRange"]
    /\ visited' = {} /\ fresh' = {}
    /\ passStart' = tcpClients /\ passOK' = {} /\ passFail' = {}
    /\ UNCHANGED <<tcpSet, wsSet, mutex, task, calls, loopVars, hc, crashed, emitted,
                   tcpObs, wsObs, lateWrite>>
    /\ UNCHANGED <<lsnVars, proxyVars, payload, lockVars>>

\* BroadcastToTCPClients: hub.Lock(), the range loop starts.
BroadcastTCPLock ==
    /\ ~crashed /\ bc.pc = "tcpLock" /\ mutex = "free"
    /\ mutex' = "bc"
    /\ bc' = [bc EXCEPT !.pc = "tcpRange"]
    /\ visited' = {} /\ fresh' = {}
    /\ passStart' = tcpClients /\ passOK' = {} /\ passFail' = {}
    /\ UNCHANGED <<tcpSet, wsSet, task, calls, loopVars, hc, crashed, emitted,
                   tcpObs, wsObs, lateWrite>>
    /\ UNCHANGED <<lsnVars, proxyVars, payload, lockVars>>

\* One iteration of the range loop: format, write; on a write error Close
\* the client and delete it.  A write on a connection the Hub has closed
\* fails; any other write fails or succeeds as the peer decides.
BroadcastTCPWrite(c, ok) ==
    /\ ~crashed /\ bc.pc = "tcpRange"
    /\ c \in tcpClients \ visited
    /\ ok => c \notin tcpClosed
    /\ bc' = [bc EXCEPT !.c = c]
    /\ visited' = visited \cup {c}
    /\ tcpOwed' = tcpOwed \ {c}
    /\ lateWrite' = IF c \in tcpFailed THEN lateWrite \cup {<<"tcp", c>>} ELSE lateWrite
    /\ IF ok
       THEN /\ tcpReceived' = [tcpReceived EXCEPT ![c] = Append(@, FormatTCP(bc.s))]
            /\ passOK' = passOK \cup {c}
            /\ UNCHANGED <<tcpSet, passFail, tcpFailed, tcpRet, tcpStable>>
       ELSE /\ tcpClosed' = tcpClosed \cup {c}
            /\ tcpClients' = MapDeleteFailed(tcpClients, c)
            /\ passFail' = passFail \cup {c}
            /\ tcpFailed' = tcpFailed \cup {c}
            /\ tcpRet' = tcpRet \ {c}
            /\ tcpStable' = tcpStable \ {c}
            /\ UNCHANGED <<tcpReceived, passOK>>
    /\ UNCHANGED <<wsSet, mutex, task, calls, loopVars, hc, fresh, crashed,
                   emitted, passStart, wsObs>>
    /\ UNCHANGED <<lsnVars, proxyVars, payload, lockVars>>

\* The range loop ends once every key it must produce has been produced.
BroadcastTCPDone ==
    /\ ~crashed /\ bc.pc = "tcpRange"
    /\ (tcpClients \ visited) \subseteq fresh
    /\ bc' = [bc EXCEPT !.pc = "tcpUnlock"]
    /\ UNCHANGED <<tcpSet, wsSet, mutex, task, calls, loopVars, hc, iterVars,
                   crashed, emitted, passObs, tcpObs, wsObs, lateWrite>>
    /\ UNCHANGED <<lsnVars, proxyVars, payload, lockVars>>

\* The deferred hub.Unlock(); Broadcast goes on to BroadcastToWsClients.
BroadcastTCPUnlock ==
    /\ ~crashed /\ bc.pc = "tcpUnlock"
    /\ mutex' = "free"
    /\ bc' = [bc EXCEPT !.pc = "wsLock", !.c = "none"]
    /\ visited' = {} /\ fresh' = {}
    /\ passStart' = {} /\ passOK' = {} /\ passFail' = {}
    /\ UNCHANGED <<tcpSet, wsSet, task, calls, loopVars, hc, crashed, emitted,
                   tcpObs, wsObs, lateWrite>>
    /\ UNCHANGED <<lsnVars, proxyVars, payload, lockVars>>

\* BroadcastToWsClients: hub.Lock(), json.Marshal(s) (which cannot fail on
\* a Status), the range loop starts.
BroadcastWsLock ==
    /\ ~crashed /\ bc.pc = "wsLock" /\ mutex = "free"
    /\ mutex' = "bc"
    /\ bc' = [bc EXCEPT !.pc = "wsRange"]
    /\ visited' = {} /\ fresh' = {}
    /\ passStart' = wsClients /\ passOK' = {} /\ passFail' = {}
    /\ UNCHANGED <<tcpSet, wsSet, task, calls, loopVars, hc, crashed, emitted,
                   tcpObs, wsObs, lateWrite>>
    /\ UNCHANGED <<lsnVars, proxyVars, payload, lockVars>>

\* One iteration: WriteMessage(BinaryMessage, msg); on error Close, delete.
BroadcastWsWrite(c, ok) ==
    /\ ~crashed /\ bc.pc = "wsRange"
    /\ c \in wsClients \ visited
    /\ ok => c \notin wsClosed
    /\ bc' = [bc EXCEPT !.c = c]
    /\ visited' = visited \cup {c}
    /\ wsOwed' = wsOwed \ {c}
    /\ lateWrite' = IF c \in wsFailed THEN lateWrite \cup {<<"ws", c>>} ELSE lateWrite
    /\ IF ok
       THEN /\ wsReceived' = [wsReceived EXCEPT ![c] = Append(@, MarshalStatus(bc.s))]
            /\ passOK' = passOK \cup {c}
            /\ UNCHANGED <<wsSet, passFail, wsFailed, wsRet, wsStable>>
       ELSE /\ wsClosed' = wsClosed \cup {c}
            /\ wsClients' = MapDeleteFailed(wsClients, c)
            /\ passFail' = passFail \cup {c}
            /\ wsFailed' = wsFailed \cup {c}
            /\ wsRet' = wsRet \ {c}
            /\ wsStable' = wsStable \ {c}
            /\ UNCHANGED <<wsEver, wsReceived, passOK>>
    /\ UNCHANGED <<tcpSet, mutex, task, calls, loopVars, hc, fresh, crashed,
                   emitted, passStart, tcpObs>>
    /\ UNCHANGED <<lsnVars, proxyVars, payload, lockVars>>

BroadcastWsDone ==
    /\ ~crashed /\ bc.pc = "wsRange"
    /\ (wsClients \ visited) \subseteq fresh
    /\ bc' = [bc EXCEPT !.pc = "wsUnlock"]
    /\ UNCHANGED <<tcpSet, wsSet, mutex, task, calls, loopVars, hc, iterVars,
                   crashed, emitted, passObs, tcpObs, wsObs, lateWrite>>
    /\ UNCHANGED <<lsnVars, proxyVars, payload, lockVars>>

\* The deferred hub.Unlock(); BroadcastToWsClients and Broadcast return.
BroadcastWsUnlock ==
    /\ ~crashed /\ bc.pc = "wsUnlock"
    /\ mutex' = "free"
    /\ bc' = [pc |-> "idle", s |-> MkStatus("", 0, 0, FALSE, 0, 0), c |-> "none"]
    /\ visited' = {} /\ fresh' = {}
    /\ passStart' = {} /\ passOK' = {} /\ passFail' = {}
    /\ UNCHANGED <<tcpSet, wsSet, task, calls, loopVars, hc, crashed, emitted,
                   tcpObs, wsObs, lateWrite>>
    /\ UNCHANGED <<lsnVars, proxyVars, payload, lockVars>>


\* ------------------------------------------------------------ ListenTCP
\* net.Listen fails or succeeds.  On failure the error is logged and the
\* function goes on: "defer l.Close()" then calls a method of the nil
\* listener, which panics; the deferred close(tcpError) runs while the
\* panic unwinds, and the unrecovered panic ends the process.
ListenTCP(ok) ==
    /\ ~crashed /\ ltcp.pc = "start"
    /\ IF ok
       THEN /\ ltcp' = [ltcp EXCEPT !.pc = "accept", !.bind = "ok"]
            /\ UNCHANGED <<tcpError, crashed>>
       ELSE /\ ltcp' = [ltcp EXCEPT !.pc = "panicked", !.bind = "failed"]
            /\ tcpError' = tcpError + 1
            /\ crashed' = TRUE
    /\ UNCHANGED <<tcpSet, wsSet, mutex, task, calls, loopVars, hc, bc, iterVars,
                   hubObs, lws, wsError, accepted, proxyVars, payload, lockVars>>

\* One turn of the accept loop up to the call of AddTCPClient: Accept
\* returns a connection or an error; the error is printed and the loop
\* body goes on with a client holding the nil connection.
ListenTCPAccept(c, ok) ==
    /\ ~crashed /\ ltcp.pc = "accept" /\ <<"tcp", c>> \notin accepted
    /\ accepted' = accepted \cup {<<"tcp", c>>}
    /\ ltcp' = [ltcp EXCEPT !.pc = "lock", !.c = c,
                            !.conn = IF ok THEN "conn" ELSE "nil"]
    /\ UNCHANGED <<hubVars, lws, tcpError, wsError, proxyVars, payload, lockVars>>

\* hub.Lock() of the AddTCPClient call.
ListenTCPLock ==
    /\ ~crashed /\ ltcp.pc = "lock" /\ mutex = "free"
    /\ mutex' = "ltcp"
    /\ ltcp' = [ltcp EXCEPT !.pc = "body"]
    /\ UNCHANGED <<tcpSet, wsSet, task, calls, loopVars, hc, bc, iterVars, crashed,
                   hubObs, lws, tcpError, wsError, accepted, proxyVars, payload, lockVars>>

\* The body of AddTCPClient for the accepted client.  With a nil
\* connection the client is inserted, then client.RemoteAddr() panics: the
\* deferred Unlock and close(tcpError) run and the process ends.
ListenTCPAdd ==
    /\ ~crashed /\ ltcp.pc = "body"
    /\ mutex' = "free"
    /\ IF ltcp.conn = "conn"
       THEN /\ AddTCPClient(ltcp.c)
            /\ ltcp' = [ltcp EXCEPT !.pc = "accept", !.c = "none", !.conn = "none"]
            /\ UNCHANGED <<tcpError, crashed>>
       ELSE /\ tcpClients' = MapInsert(MapDeleteIfPresent(tcpClients, ltcp.c), ltcp.c)
            /\ ltcp' = [ltcp EXCEPT !.pc = "panicked"]
            /\ tcpError' = tcpError + 1
            /\ crashed' = TRUE
            /\ UNCHANGED <<tcpClosed, tcpLoops, tcpObs>>
    /\ UNCHANGED <<wsSet, task, calls, wsLoops, hc, bc, iterVars, emitted,
                   passObs, wsObs, lateWrite, lws, wsError, accepted, proxyVars, payload, lockVars>>

\* ------------------------------------------------------------ ListenWS, wsHandler
\* http.ListenAndServe either serves (and does not return) or fails to
\* bind: the error is logged, the function returns and the deferred
\* close(wsError) runs.
ListenWS(ok) ==
    /\ ~crashed /\ lws.pc = "start"
    /\ IF ok
       THEN /\ lws' = [pc |-> "serving", bind |-> "ok"]
            /\ UNCHANGED wsError
       ELSE /\ lws' = [pc |-> "returned", bind |-> "failed"]
            /\ wsError' = wsError + 1
    /\ UNCHANGED <<hubVars, ltcp, tcpError, accepted, proxyVars, payload, lockVars>>

\* A request on /ws, served in a goroutine of its own: the upgrade fails
\* and the handler returns, or it yields a connection and the handler
\* calls AddWsClient.
wsHandler(u, c, ok) ==
    /\ ~crashed /\ lws.pc = "serving" /\ task[u].pc = "idle"
    /\ <<"ws", c>> \notin accepted
    /\ accepted' = accepted \cup {<<"ws", c>>}
    /\ task' = IF ok THEN [task EXCEPT ![u] = [pc |-> "wsDelete", op |-> "AddWs", c |-> c]]
               ELSE task
    /\ UNCHANGED <<tcpSet, wsSet, mutex, calls, loopVars, hc, bc, iterVars, crashed,
                   hubObs, ltcp, lws, tcpError, wsError, proxyVars, payload, lockVars>>

\* ------------------------------------------------------------ Proxy: data
MaxInfos == 2                    \* descriptors in an info response

\* rotator.Info, with the fields Proxy.Info() fills.
MkInfo(az, ov) ==
    [Name |-> "rot", HasAzimuth |-> TRUE, HasElevation |-> TRUE,
     AzimuthMin |-> 10, AzimuthMax |-> 450, AzimuthStop |-> 180,
     AzimuthOverlap |-> ov, ElevationMin |-> 20, ElevationMax |-> 170,
     Azimuth |-> az, AzPreset |-> 90, Elevation |-> 30, ElPreset |-> 60]

Infos == {MkInfo(az, ov) : az \in {5, 400}, ov \in BOOLEAN}

\* What the GET of /info can yield: no response, a body that does not
\* decode, or a JSON array of descriptors.
Responses ==
    {[kind |-> "unreachable", infos |-> <<>>], [kind |-> "undecodable", infos |-> <<>>]}
    \cup {[kind |-> "list", infos |-> l] :
            l \in UNION {[1..n -> Infos] : n \in 0..MaxInfos}}

\* The statuses heading events carry.
EventStatuses ==
    {MkStatus("rot", az, azp, FALSE, el, elp) :
        az \in {5, 400}, azp \in {90, 5}, el \in {30, 0}, elp \in {60, 0}}

ZeroStatus == MkStatus("", 0, 0, FALSE, 0, 0)

\* The statuses a Hub broadcasts to its websocket clients.
HubStatuses == {StatusSeq[i] : i \in 1..MaxBroadcasts}

\* The frames the websocket can deliver: a "heading" Event with each status,
\* an "add" and a "remove" Event, the frames a Hub writes on Broadcast(s),
\* bytes that are not JSON.
Frames ==
    {[name |-> "heading", status |-> MarshalStatus(s)] : s \in EventStatuses}
    \cup {[name |-> n, status |-> MarshalStatus(StatusSeq[1])] : n \in {"add", "remove"}}
    \cup {MarshalStatus(s) : s \in HubStatuses}
    \cup {[malformed |-> TRUE]}

Has(o, k) == k \in DOMAIN o

\* json.Unmarshal into a rotator.Status: members that are absent keep the
\* zero value.
UnmarshalStatus(o) ==
    [Name |-> IF Has(o, "name") THEN o.name ELSE "",
     Azimuth |-> IF Has(o, "azimuth") THEN o.azimuth ELSE 0,
     AzPreset |-> IF Has(o, "az_preset") THEN o.az_preset ELSE 0,
     AzimuthOverlap |-> IF Has(o, "azimuth_overlap") THEN o.azimuth_overlap ELSE FALSE,
     Elevation |-> IF Has(o, "elevation") THEN o.elevation ELSE 0,
     ElPreset |-> IF Has(o, "el_preset") THEN o.el_preset ELSE 0]

\* data := hub.Event{}; json.Unmarshal(msg, &data): on an error data stays
\* the zero Event and the loop goes on with it.
UnmarshalEvent(msg) ==
    IF Has(msg, "malformed") THEN [Name |-> "", Status |-> ZeroStatus]
    ELSE [Name |-> IF Has(msg, "name") THEN msg.name ELSE "",
          Status |-> IF Has(msg, "status") THEN UnmarshalStatus(msg.status)
                     ELSE ZeroStatus]

\* r := &Proxy{name: "rotatorProxy"}: every other field has its zero value.
ZeroProxy ==
    [name |-> "rotatorProxy", azimuthMin |-> 0, azimuthMax |-> 0,
     azimuthStop |-> 0, azimuthOverlap |-> FALSE, elevationMin |-> 0,
     elevationMax |-> 0, hasAzimuth |-> FALSE, hasElevation |-> FALSE,
     azimuth |-> 0, azPreset |-> 0, elevation |-> 0, elPreset |-> 0]

\* rotator.Request with every field at its zero value.
ZeroRequest ==
    [HasAzimuth |-> FALSE, Azimuth |-> 0, HasElevation |-> FALSE, Elevation |-> 0,
     StopAzimuth |-> FALSE, StopElevation |-> FALSE, Stop |-> FALSE]

NoRequest == [op |-> "none", req |-> ZeroRequest, ok |-> FALSE]

\* The targets callers command, and the requests passed to ExecuteRequest.
Targets == {270}
Requests ==
    {[ZeroRequest EXCEPT !.HasAzimuth = TRUE, !.Azimuth = 270,
                         !.HasElevation = TRUE, !.Elevation = 45]}

\* The assignments getInfo makes from infos[0].
SeedCache(p, i) ==
    [p EXCEPT !.name = i.Name, !.hasAzimuth = i.HasAzimuth,
              !.hasElevation = i.HasElevation, !.azimuthMin = i.AzimuthMin,
              !.azimuthMax = i.AzimuthMax, !.azimuthStop = i.AzimuthStop,
              !.elevationMin = i.ElevationMin, !.elevationMax = i.ElevationMax,
              !.azimuth = i.Azimuth, !.azPreset = i.AzPreset,
              !.elevation = i.Elevation, !.elPreset = i.ElPreset]

\* getInfo: a failed GET or decode returns the error; more than one
\* descriptor returns an error; otherwise infos[0] is read, which panics
\* with an index out of range on an empty slice.
getInfo(p, resp) ==
    IF resp.kind # "list" THEN [err |-> "err", r |-> p]
    ELSE IF Len(resp.infos) > 1 THEN [err |-> "err", r |-> p]
    ELSE IF Len(resp.infos) = 0 THEN [err |-> "panic", r |-> p]
    ELSE [err |-> "nil", r |-> SeedCache(p, resp.infos[1])]

\* Proxy.Info(): the descriptor built from the cache.
Info ==
    [Name |-> r.name, HasAzimuth |-> r.hasAzimuth, HasElevation |-> r.hasElevation,
     AzimuthMin |-> r.azimuthMin, AzimuthMax |-> r.azimuthMax,
     AzimuthStop |-> r.azimuthStop, AzimuthOverlap |-> r.azimuthOverlap,
     ElevationMin |-> r.elevationMin, ElevationMax |-> r.elevationMax,
     Azimuth |-> r.azimuth, AzPreset |-> r.azPreset,
     Elevation |-> r.elevation, ElPreset |-> r.elPreset]

\* Proxy.Status()
Status ==
    [Name |-> r.name, Azimuth |-> r.azimuth, AzPreset |-> r.azPreset,
     AzimuthOverlap |-> r.azimuthOverlap, Elevation |-> r.elevation,
     ElPreset |-> r.elPreset]

\* case "heading": the cache after the four compare-and-assign blocks.
HeadingCache(p, s) ==
    [p EXCEPT !.azimuth = IF p.azimuth # s.Azimuth THEN s.Azimuth ELSE @,
              !.azPreset = IF p.azPreset # s.AzPreset THEN s.AzPreset ELSE @,
              !.elevation = IF p.elevation # s.Elevation THEN s.Elevation ELSE @,
              !.elPreset = IF p.elPreset # s.ElPreset THEN s.ElPreset ELSE @]

\* case "heading": the cache fields the four blocks assign.
HeadingWrites(p, s) ==
    {f \in {"azimuth", "azPreset", "elevation", "elPreset"} :
        \/ f = "azimuth" /\ p.azimuth # s.Azimuth
        \/ f = "azPreset" /\ p.azPreset # s.AzPreset
        \/ f = "elevation" /\ p.elevation # s.Elevation
        \/ f = "elPreset" /\ p.elPreset # s.ElPreset}

CallIf(cond, axis) == IF cond THEN <<axis>> ELSE <<>>

\* A variant of the heading case that notifies whether or not a field
\* differs.
HeadingCallsUnconditional(p, s, h) ==
    IF ~h THEN <<>> ELSE <<"Azimuth", "Azimuth", "Elevation", "Elevation">>

\* A variant of the heading case that notifies once per axis.
HeadingCallsOncePerAxis(p, s, h) ==
    IF ~h THEN <<>>
    ELSE CallIf(p.azimuth # s.Azimuth \/ p.azPreset # s.AzPreset, "Azimuth")
         \o CallIf(p.elevation # s.Elevation \/ p.elPreset # s.ElPreset, "Elevation")

\* case "heading": the "go r.eventHandler(r, axis, s)" statements executed,
\* in order: one in each of the four blocks whose field differs, when a
\* handler is registered.
HeadingCalls(p, s, h) ==
    IF ~h THEN <<>>
    ELSE CallIf(p.azimuth # s.Azimuth, "Azimuth")
         \o CallIf(p.azPreset # s.AzPreset, "Azimuth")
         \o CallIf(p.elevation # s.Elevation, "Elevation")
         \o CallIf(p.elPreset # s.ElPreset, "Elevation")

\* ------------------------------------------------------------ Proxy: actions
NewProxy ==
    /\ r = ZeroProxy
    /\ conn = "nil"
    /\ eventHandler = FALSE
    /\ pnew = [pc |-> "start", result |-> "none", received |-> FALSE]
    /\ fetched = [kind |-> "none", infos |-> <<>>]
    /\ dials = 0 /\ done = 0
    /\ prev = ZeroProxy
    /\ lastEvent = [Name |-> "", Status |-> ZeroStatus]
    /\ lastCalls = <<>>
    /\ lastFrame = [none |-> TRUE]
    /\ lastWrites = {}
    /\ lastReq = NoRequest

\* proxy.New up to the dial: apply the options, run getInfo.
New(h, resp) ==
    /\ pnew.pc = "start"
    /\ eventHandler' = h
    /\ fetched' = resp
    /\ LET g == getInfo(ZeroProxy, resp) IN
         /\ r' = g.r
         /\ pnew' = [pnew EXCEPT
                       !.pc = CASE g.err = "nil" -> "dial"
                                [] g.err = "err" -> "returned"
                                [] OTHER -> "panicked",
                       !.result = CASE g.err = "nil" -> "none"
                                    [] g.err = "err" -> "err"
                                    [] OTHER -> "panic"]
    /\ UNCHANGED <<hubVars, lsnVars, payload, lockVars, conn, dials, done, prev, lastEvent, lastCalls,
                   lastFrame, lastWrites, lastReq>>

\* wsDialer.Dial: on an error New returns it; otherwise the connection is
\* kept, the receive goroutine is started and New returns the Proxy.
Dial(ok) ==
    /\ pnew.pc = "dial"
    /\ dials' = dials + 1
    /\ IF ok
       THEN /\ conn' = "open"
            /\ pnew' = [pnew EXCEPT !.pc = "running", !.result = "ok"]
       ELSE /\ pnew' = [pnew EXCEPT !.pc = "returned", !.result = "err"]
            /\ UNCHANGED conn
    /\ UNCHANGED <<hubVars, lsnVars, payload, lockVars, r, eventHandler, fetched, done, prev,
                   lastEvent, lastCalls, lastFrame, lastWrites, lastReq>>

\* One turn of the receive loop: ReadMessage yields a frame, it is decoded
\* and dispatched on its name; only "heading" touches the cache.
Receive(msg) ==
    /\ pnew.pc = "running" /\ conn = "open"
    /\ lastFrame' = msg
    /\ LET data == UnmarshalEvent(msg) IN
         /\ lastEvent' = data
         /\ prev' = r
         /\ IF data.Name = "heading"
            THEN /\ r' = HeadingCache(r, data.Status)
                 /\ lastWrites' = HeadingWrites(r, data.Status)
                 /\ lastCalls' = HeadingCalls(r, data.Status, eventHandler)
            ELSE /\ r' = r
                 /\ lastWrites' = {}
                 /\ lastCalls' = <<>>
    /\ pnew' = [pnew EXCEPT !.received = TRUE]
    /\ UNCHANGED <<hubVars, lsnVars, payload, lockVars, conn, eventHandler, fetched, dials, done, lastReq>>

\* The event stream is over: the peer closed the connection or the
\* transport failed.  Every later ReadMessage returns an error.
StreamEnd ==
    /\ pnew.pc = "running" /\ conn = "open"
    /\ conn' = "ended"
    /\ UNCHANGED <<hubVars, lsnVars, payload, lockVars, r, eventHandler, pnew, fetched, dials, done,
                   prev, lastEvent, lastCalls, lastFrame, lastWrites, lastReq>>

\* A variant of the loop's exit that leaves the completion channel open.
ReadErrorNoClose ==
    /\ pnew.pc = "running" /\ conn = "ended"
    /\ pnew' = [pnew EXCEPT !.pc = "stale"]
    /\ UNCHANGED <<hubVars, lsnVars, payload, lockVars, r, conn, eventHandler, fetched, dials, done, prev,
                   lastEvent, lastCalls, lastFrame, lastWrites, lastReq>>

\* ReadMessage fails (stream end or error): the loop returns and the
\* deferred close(done) runs.
ReadError ==
    /\ pnew.pc = "running" /\ conn = "ended"
    /\ pnew' = [pnew EXCEPT !.pc = "stale"]
    /\ done' = done + 1
    /\ UNCHANGED <<hubVars, lsnVars, payload, lockVars, r, conn, eventHandler, fetched, dials, prev,
                   lastEvent, lastCalls, lastFrame, lastWrites, lastReq>>

\* ------------------------------------------------------------ Proxy: commands
\* A variant of the command path that updates the cached presets from the
\* request before the event comes back.
WriteJSONOptimistic(op, req, ok) ==
    /\ lastReq' = [op |-> op, req |-> req, ok |-> ok]
    /\ r' = [r EXCEPT !.azPreset = IF req.HasAzimuth THEN req.Azimuth ELSE @,
                      !.elPreset = IF req.HasElevation THEN req.Elevation ELSE @]
    /\ UNCHANGED <<hubVars, lsnVars, payload, lockVars, conn, eventHandler, pnew, fetched, dials, done,
                   prev, lastEvent, lastCalls, lastFrame, lastWrites>>

\* return r.conn.WriteJSON(req): the request goes out on the connection,
\* the write succeeds or fails, and no field of the Proxy is assigned.
WriteJSON(op, req, ok) ==
    /\ lastReq' = [op |-> op, req |-> req, ok |-> ok]
    /\ UNCHANGED <<hubVars, lsnVars, payload, lockVars, r, conn, eventHandler, pnew, fetched, dials, done,
                   prev, lastEvent, lastCalls, lastFrame, lastWrites>>

\* The command methods are called on the Proxy that New returned.
SetAzimuth(az, ok) ==
    /\ pnew.result = "ok"
    /\ WriteJSON("SetAzimuth",
                 [ZeroRequest EXCEPT !.HasAzimuth = TRUE, !.Azimuth = az], ok)

SetElevation(el, ok) ==
    /\ pnew.result = "ok"
    /\ WriteJSON("SetElevation",
                 [ZeroRequest EXCEPT !.HasElevation = TRUE, !.Elevation = el], ok)

StopAzimuth(ok) ==
    /\ pnew.result = "ok"
    /\ WriteJSON("StopAzimuth", [ZeroRequest EXCEPT !.StopAzimuth = TRUE], ok)

StopElevation(ok) ==
    /\ pnew.result = "ok"
    /\ WriteJSON("StopElevation", [ZeroRequest EXCEPT !.StopElevation = TRUE], ok)

Stop(ok) ==
    /\ pnew.result = "ok"
    /\ WriteJSON("Stop", [ZeroRequest EXCEPT !.Stop = TRUE], ok)

ExecuteRequest(req, ok) ==
    /\ pnew.result = "ok"
    /\ WriteJSON("ExecuteRequest", req, ok)

\* ------------------------------------------------------------ Proxy: the cache under its lock
\* The heading case and the accessors, statement by statement: the receive
\* loop takes r.Lock(), runs its four compare-and-assign blocks and
\* unlocks; Status() and Info() take r.RLock(), read the fields one after
\* the other and unlock on return.
MaxEvents == 2                   \* frames the receive loop takes
MaxReads == 2                    \* Status()/Info() calls

HeadingFields == <<"azimuth", "azPreset", "elevation", "elPreset">>

FieldOf(s, f) ==
    CASE f = "azimuth" -> s.Azimuth
      [] f = "azPreset" -> s.AzPreset
      [] f = "elevation" -> s.Elevation
      [] OTHER -> s.ElPreset

AxisOf(f) == IF f \in {"azimuth", "azPreset"} THEN "Azimuth" ELSE "Elevation"

\* The heading and presets held by a cache.
Heading(p) == [f \in {"azimuth", "azPreset", "elevation", "elPreset"} |-> p[f]]

\* The result of an accessor before it has read a field.
Unread == [f \in {"azimuth", "azPreset", "elevation", "elPreset"} |-> -1]

NewLock ==
    /\ rw = [writer |-> FALSE, readers |-> 0]
    /\ rx = [pc |-> "read", s |-> ZeroStatus, k |-> 0, before |-> Heading(ZeroProxy)]
    /\ acc = [pc |-> "idle", op |-> "none", k |-> 0, out |-> Unread, snaps |-> {}]
    /\ events = 0 /\ reads = 0

\* The heading and presets as of the last event boundary.
Committed == IF rx.pc \in {"assign", "unlock"} THEN rx.before ELSE Heading(r)

\* conn.ReadMessage() returns a frame; it is decoded; a "heading" event
\* goes on to r.Lock(), any other frame ends the turn.
ReadMessage(msg) ==
    /\ pnew.pc = "running" /\ conn = "open" /\ rx.pc = "read" /\ events < MaxEvents
    /\ events' = events + 1
    /\ lastFrame' = msg
    /\ LET data == UnmarshalEvent(msg) IN
         /\ lastEvent' = data
         /\ rx' = IF data.Name = "heading"
                  THEN [rx EXCEPT !.pc = "lock", !.s = data.Status] ELSE rx
    /\ prev' = r
    /\ lastWrites' = {} /\ lastCalls' = <<>>
    /\ pnew' = [pnew EXCEPT !.received = TRUE]
    /\ UNCHANGED <<hubVars, lsnVars, payload, r, conn, eventHandler, fetched, dials,
                   done, lastReq, rw, acc, reads>>

\* r.Lock(): waits until no reader and no writer holds the lock.
HeadingLock ==
    /\ rx.pc = "lock" /\ ~rw.writer /\ rw.readers = 0
    /\ rw' = [rw EXCEPT !.writer = TRUE]
    /\ rx' = [rx EXCEPT !.pc = "assign", !.k = 1, !.before = Heading(r)]
    /\ UNCHANGED <<hubVars, lsnVars, payload, proxyVars, acc, events, reads>>

\* One of the four blocks: if the cached field differs from the event's,
\* assign it and, with a handler registered, start the handler.
HeadingAssign ==
    /\ rx.pc = "assign"
    /\ LET f == HeadingFields[rx.k]
           v == FieldOf(rx.s, f)
       IN  /\ r' = IF r[f] # v THEN [r EXCEPT ![f] = v] ELSE r
           /\ lastWrites' = IF r[f] # v THEN lastWrites \cup {f} ELSE lastWrites
           /\ lastCalls' = IF r[f] # v /\ eventHandler
                           THEN Append(lastCalls, AxisOf(f)) ELSE lastCalls
    /\ rx' = IF rx.k = Len(HeadingFields) THEN [rx EXCEPT !.pc = "unlock"]
             ELSE [rx EXCEPT !.k = @ + 1]
    /\ UNCHANGED <<hubVars, lsnVars, payload, conn, eventHandler, pnew, fetched, dials,
                   done, prev, lastEvent, lastFrame, lastReq, rw, acc, events, reads>>

\* r.Unlock(): the event is applied.
HeadingUnlock ==
    /\ rx.pc = "unlock"
    /\ rw' = [rw EXCEPT !.writer = FALSE]
    /\ rx' = [rx EXCEPT !.pc = "read"]
    /\ acc' = IF acc.pc \in {"read", "runlock"}
              THEN [acc EXCEPT !.snaps = @ \cup {Heading(r)}] ELSE acc
    /\ UNCHANGED <<hubVars, lsnVars, payload, proxyVars, events, reads>>

\* A goroutine calls Status() or Info() on the Proxy New returned.
AccessorCall(op) ==
    /\ pnew.result = "ok" /\ acc.pc \in {"idle", "done"} /\ reads < MaxReads
    /\ reads' = reads + 1
    /\ acc' = [pc |-> "rlock", op |-> op, k |-> 0, out |-> Unread, snaps |-> {}]
    /\ UNCHANGED <<hubVars, lsnVars, payload, proxyVars, rw, rx, events>>

\* A variant of the accessors that does not wait for the writer.
AccessorNoRLock ==
    /\ acc.pc = "rlock"
    /\ rw' = [rw EXCEPT !.readers = @ + 1]
    /\ acc' = [acc EXCEPT !.pc = "read", !.k = 1, !.snaps = {Committed}]
    /\ UNCHANGED <<hubVars, lsnVars, payload, proxyVars, rx, events, reads>>

\* r.RLock(): waits until no writer holds the lock.
AccessorRLock ==
    /\ acc.pc = "rlock" /\ ~rw.writer
    /\ rw' = [rw EXCEPT !.readers = @ + 1]
    /\ acc' = [acc EXCEPT !.pc = "read", !.k = 1, !.snaps = {Committed}]
    /\ UNCHANGED <<hubVars, lsnVars, payload, proxyVars, rx, events, reads>>

\* The struct literal of Status() and of Info() reads r.azimuth,
\* r.azPreset, r.elevation, r.elPreset, in this order.
AccessorRead ==
    /\ acc.pc = "read"
    /\ LET f == HeadingFields[acc.k] IN
         acc' = [acc EXCEPT !.out = [@ EXCEPT ![f] = r[f]],
                            !.k = IF acc.k = Len(HeadingFields) THEN @ ELSE @ + 1,
                            !.pc = IF acc.k = Len(HeadingFields) THEN "runlock" ELSE @]
    /\ UNCHANGED <<hubVars, lsnVars, payload, proxyVars, rw, rx, events, reads>>

\* The deferred r.RUnlock(); the accessor returns what it read.
AccessorRUnlock ==
    /\ acc.pc = "runlock"
    /\ rw' = [rw EXCEPT !.readers = @ - 1]
    /\ acc' = [acc EXCEPT !.pc = "done"]
    /\ UNCHANGED <<hubVars, lsnVars, payload, proxyVars, rx, events, reads>>

\* ------------------------------------------------------------ TCP payload
\* The headings a rotator can report to the TCP clients.
Angles == 0..999
Elevations == {0, 5, 9, 10, 99, 100, 120, 999}

NoPayload == [s |-> MkStatus("", 0, 0, FALSE, 0, 0), data |-> <<>>]

\* data := fmt.Sprintf("+0%.3d+0%.3d\r\n", s.Azimuth, s.Elevation), for a
\* status with the given azimuth and elevation.  One status is encoded in
\* a behaviour.
Sprintf(az, el) ==
    /\ payload = NoPayload
    /\ payload' = [s |-> MkStatus("rot", az, az, FALSE, el, el),
                   data |-> FormatTCP(MkStatus("rot", az, az, FALSE, el, el))]
    /\ UNCHANGED <<hubVars, lsnVars, proxyVars, lockVars>>

\* ------------------------------------------------------------ specification
NewListeners ==
    /\ ltcp = [pc |-> "start", bind |-> "none", c |-> "none", conn |-> "none"]
    /\ lws = [pc |-> "start", bind |-> "none"]
    /\ tcpError = 0 /\ wsError = 0
    /\ accepted = {}

Init == NewHub /\ NewListeners /\ NewProxy /\ payload = NoPayload /\ NewLock

NextHub ==
    \/ \E u \in Tasks, op \in {"AddTCP", "RemoveTCP", "AddWs", "RemoveWs"},
          c \in Clients : TaskCall(u, op, c)
    \/ \E u \in Tasks : TaskLock(u)
    \/ \E u \in Tasks : TaskAddTCP(u)
    \/ \E u \in Tasks : TaskRemoveTCP(u)
    \/ \E u \in Tasks : TaskRemoveWs(u)
    \/ \E u \in Tasks, o \in {"ok", "fatal", "corrupt"} : AddWsDelete(u, o)
    \/ \E u \in Tasks, o \in {"ok", "fatal", "corrupt"} : AddWsInsert(u, o)
    \/ \E c \in Clients : HandleCloseRecvTCP(c)
    \/ \E c \in Clients : HandleCloseRecvWs(c)
    \/ HandleCloseLock
    \/ HandleCloseRemoveTCP
    \/ HandleCloseRemoveWs
    \/ \E s \in {StatusSeq[i] : i \in 1..Len(StatusSeq)} : Broadcast(s)
    \/ BroadcastTCPLock
    \/ \E c \in Clients, ok \in BOOLEAN : BroadcastTCPWrite(c, ok)
    \/ BroadcastTCPDone
    \/ BroadcastTCPUnlock
    \/ BroadcastWsLock
    \/ \E c \in Clients, ok \in BOOLEAN : BroadcastWsWrite(c, ok)
    \/ BroadcastWsDone
    \/ BroadcastWsUnlock

SpecHub == Init /\ [][NextHub]_vars

\* The steps of the Hub's goroutines once they are inside a call: lock
\* acquisitions, the bodies holding the lock, the iterations of a pass (its
\* writes return), the Remove call handleClose makes.
HubProgress ==
    \/ \E u \in Tasks : TaskLock(u) \/ TaskAddTCP(u) \/ TaskRemoveTCP(u) \/ TaskRemoveWs(u)
    \/ \E u \in Tasks, o \in {"ok", "fatal", "corrupt"} : AddWsDelete(u, o) \/ AddWsInsert(u, o)
    \/ HandleCloseLock \/ HandleCloseRemoveTCP \/ HandleCloseRemoveWs
    \/ BroadcastTCPLock \/ BroadcastTCPDone \/ BroadcastTCPUnlock
    \/ BroadcastWsLock \/ BroadcastWsDone \/ BroadcastWsUnlock
    \/ \E c \in Clients, ok \in BOOLEAN : BroadcastTCPWrite(c, ok) \/ BroadcastWsWrite(c, ok)

\* Every goroutine is scheduled and every write returns.
SpecHubLive == SpecHub /\ WF_vars(HubProgress)

NextListen ==
    \/ \E ok \in BOOLEAN : ListenTCP(ok)
    \/ \E c \in Clients, ok \in BOOLEAN : ListenTCPAccept(c, ok)
    \/ ListenTCPLock
    \/ ListenTCPAdd
    \/ \E ok \in BOOLEAN : ListenWS(ok)
    \/ \E u \in Tasks, c \in Clients, ok \in BOOLEAN : wsHandler(u, c, ok)
    \/ \E u \in Tasks, o \in {"ok", "fatal", "corrupt"} : AddWsDelete(u, o)
    \/ \E u \in Tasks, o \in {"ok", "fatal", "corrupt"} : AddWsInsert(u, o)

SpecListen == Init /\ [][NextListen]_vars

NextProxy ==
    \/ \E h \in BOOLEAN, resp \in Responses : New(h, resp)
    \/ \E ok \in BOOLEAN : Dial(ok)
    \/ \E msg \in Frames : Receive(msg)
    \/ StreamEnd
    \/ ReadError
    \/ \E az \in Targets, ok \in BOOLEAN : SetAzimuth(az, ok)
    \/ \E el \in Targets, ok \in BOOLEAN : SetElevation(el, ok)
    \/ \E ok \in BOOLEAN : StopAzimuth(ok)
    \/ \E ok \in BOOLEAN : StopElevation(ok)
    \/ \E ok \in BOOLEAN : Stop(ok)
    \/ \E req \in Requests, ok \in BOOLEAN : ExecuteRequest(req, ok)

SpecProxy == Init /\ [][NextProxy]_vars

\* The receive goroutine is scheduled: a ReadMessage that has an error to
\* return does return it.
SpecProxyLive == SpecProxy /\ WF_vars(ReadError)

NextProxyLock ==
    \/ \E h \in BOOLEAN, resp \in Responses : New(h, resp)
    \/ \E ok \in BOOLEAN : Dial(ok)
    \/ \E msg \in Frames : ReadMessage(msg)
    \/ HeadingLock
    \/ HeadingAssign
    \/ HeadingUnlock
    \/ \E op \in {"Status", "Info"} : AccessorCall(op)
    \/ AccessorRLock
    \/ AccessorRead
    \/ AccessorRUnlock

SpecProxyLock == Init /\ [][NextProxyLock]_vars

NextFormat == \E az \in Angles, el \in Elevations : Sprintf(az, el)

SpecFormat == Init /\ [][NextFormat]_vars

Next == NextHub \/ NextListen \/ NextProxy \/ NextProxyLock \/ NextFormat

Spec == Init /\ [][Next]_vars

\* ------------------------------------------------------------ claims on the Hub
\* A pass has ended its range loop and still holds the lock.
TCPPassEnded == bc.pc = "tcpUnlock"
WsPassEnded == bc.pc = "wsUnlock"

\* What a pass owes each client it started with: a failed client is closed
\* and gone, every other one was written and is still registered.
PassIsolated(set, closed) ==
    \A c \in passStart :
        IF c \in passFail THEN c \in closed /\ c \notin set
        ELSE c \in passOK /\ c \in set

\* C1: in any broadcast pass, TCP or websocket, a client whose write fails
\* is closed and deleted, and every other client registered at the start of
\* the pass is written the status in that pass and is still registered when
\* the pass ends.
C1_BroadcastIsolation ==
    /\ TCPPassEnded => PassIsolated(tcpClients, tcpClosed)
    /\ WsPassEnded => PassIsolated(wsClients, wsClosed)

\* The TCP half of C1, whose map is only ever touched under the mutex.
TCPBroadcastIsolation == TCPPassEnded => PassIsolated(tcpClients, tcpClosed)

\* C2: once a write to c has failed, c is absent from its client set and no
\* later broadcast writes to c, until an explicit Add of c.
C2_FailedClientStaysOut ==
    /\ tcpFailed \cap tcpClients = {}
    /\ wsFailed \cap wsClients = {}
    /\ lateWrite = {}

TCPFailedClientStaysOut ==
    /\ tcpFailed \cap tcpClients = {}
    /\ {x \in lateWrite : x[1] = "tcp"} = {}

\* Broadcasts whose TCP (websocket) write to c has come due: all the calls
\* made, less the current one while its pass has not reached c.
TCPDue(c) ==
    IF bc.pc = "tcpLock" \/ (bc.pc = "tcpRange" /\ c \notin passOK)
    THEN Len(emitted) - 1 ELSE Len(emitted)

WsDue(c) ==
    IF bc.pc \in {"tcpLock", "tcpRange", "tcpUnlock", "wsLock"}
       \/ (bc.pc = "wsRange" /\ c \notin passOK)
    THEN Len(emitted) - 1 ELSE Len(emitted)

\* C3: a client that stays registered and never fails a write receives, per
\* transport, exactly one write per Broadcast call, in call order, whatever
\* Add/Remove calls for other clients interleave.
C3_InOrderDelivery ==
    \A c \in Clients :
        /\ c \in tcpStable =>
             tcpReceived[c] = [i \in 1..TCPDue(c) |-> FormatTCP(emitted[i])]
        /\ c \in wsStable =>
             wsReceived[c] = [i \in 1..WsDue(c) |-> MarshalStatus(emitted[i])]

TCPInOrderDelivery ==
    \A c \in tcpStable :
        tcpReceived[c] = [i \in 1..TCPDue(c) |-> FormatTCP(emitted[i])]

\* C4: a client whose Add returned before a Broadcast call began, and that
\* is neither removed nor fails a write in between, is written by that call,
\* on both transports.
C4_RegisteredImpliesDelivered ==
    /\ TCPPassEnded => tcpOwed = {}
    /\ WsPassEnded => wsOwed = {}

TCPRegisteredImpliesDelivered == TCPPassEnded => tcpOwed = {}

\* The goroutines that are inside an access to a client set.
Accessing ==
    {u \in Tasks : task[u].pc \in {"body", "wsDelete", "wsInsert"}}
    \cup (IF bc.pc \in {"tcpRange", "tcpUnlock", "wsRange", "wsUnlock"} THEN {"bc"} ELSE {})
    \cup (IF hc.pc = "body" THEN {"hc"} ELSE {})

\* C5: every access the Add, Remove and broadcast operations make to a
\* client set happens with the Hub mutex held by the caller, so no two of
\* them are inside a client set at the same time.
C5_AccessUnderMutex ==
    /\ \A x \in Accessing : mutex = x
    /\ Cardinality(Accessing) <= 1

\* The same for every operation but AddWsClient.
LockedOpsUnderMutex ==
    \A x \in Accessing :
        (x \in Tasks => task[x].op # "AddWs") => mutex = x

\* C6: each transport's client set is never larger than the set of clients
\* added, still open and not removed; a client the Hub has closed is never
\* left in a set.
C6_SetWithinLiveClients ==
    /\ Cardinality(tcpClients) <= Cardinality(tcpRet \ tcpClosed)
    /\ tcpClients \cap tcpClosed = {}
    /\ Cardinality(wsClients) <= Cardinality(wsRet \ wsClosed)
    /\ wsClients \cap wsClosed = {}

\* The step in which a Remove call for c, made by a task or by
\* handleClose, runs its body and returns.
RemoveStep(op, t, c) ==
    \/ \E u \in Tasks : /\ task[u].pc = "body" /\ task[u].op = op /\ task[u].c = c
                        /\ task'[u].pc = "idle"
    \/ hc.pc = "body" /\ hc.t = t /\ hc.c = c /\ hc'.pc = "select"

\* C15: RemoveTCPClient and RemoveWsClient are idempotent: Remove(c) leaves
\* c absent and closed and every other entry as it was; on a client that is
\* not registered (as after a first Remove) it leaves the set unchanged.
C15_RemoveIdempotent ==
    [][\A c \in Clients :
         /\ RemoveStep("RemoveTCP", "tcp", c) =>
              /\ tcpClients' = tcpClients \ {c}
              /\ tcpClosed' = tcpClosed \cup {c}
              /\ c \notin tcpClients => tcpClients' = tcpClients
              /\ wsClients' = wsClients
         /\ RemoveStep("RemoveWs", "ws", c) =>
              /\ wsClients' = wsClients \ {c}
              /\ wsClosed' = wsClosed \cup {c}
              /\ c \notin wsClients => wsClients' = wsClients
              /\ tcpClients' = tcpClients]_vars

\* c1 was added, then removed twice: by a RemoveTCPClient call and by
\* handleClose when its listen loop ended.
C15_Witness ==
    /\ calls = 2 /\ \A u \in Tasks : task[u].pc = "idle"
    /\ hc.pc = "select" /\ tcpLoops["c1"] = 0 /\ "c1" \notin tcpRet
    /\ tcpClosed = {"c1"} /\ tcpClients = {}
    /\ tcpFailed = {} /\ emitted = <<>>
    /\ "c1" \notin tcpStable /\ wsClosed = {} /\ wsEver = {}

\* The step in which an Add call for c inserts c and returns.  AddWsClient
\* is taken when its insert overlaps no other access to the map.
AddStep(c, op) ==
    \E u \in Tasks :
        /\ task[u].op = op /\ task[u].c = c /\ task'[u].pc = "idle"
        /\ \/ op = "AddTCP" /\ task[u].pc = "body"
           \/ op = "AddWs" /\ task[u].pc = "wsInsert" /\ WsAccessors(u) = {}

\* C16: an Add call leaves exactly the entry of its client in the set, be
\* the client registered already or not, and every other entry unchanged.
C16_AddKeepsOneEntry ==
    [][\A c \in Clients :
         /\ AddStep(c, "AddTCP") => tcpClients' = tcpClients \cup {c}
         /\ AddStep(c, "AddWs") => wsClients' = wsClients \cup {c}]_vars

\* c1 was added twice to the TCP set, which holds it once.
C16_Witness ==
    /\ tcpLoops["c1"] = 2 /\ tcpClients = {"c1"}
    /\ \A u \in Tasks : task[u].pc = "idle"

\* A broadcast pass is between its Lock and its Unlock.
InPass == bc.pc \in {"tcpRange", "tcpUnlock", "wsRange", "wsUnlock"}

\* C18: a pass holds the mutex from before its first write until after its
\* last; while it does, no AddTCPClient, RemoveTCPClient or RemoveWsClient
\* call completes, and a client is written only by the pass's loop, one
\* client at a time.
C18_PassHoldsMutex ==
    /\ [](InPass => mutex = "bc")
    /\ [][InPass =>
            /\ \A u \in Tasks :
                 (task[u].pc # "idle" /\ task[u].op \in {"AddTCP", "RemoveTCP", "RemoveWs"})
                     => task'[u].pc # "idle"
            /\ hc.pc \in {"lock", "body"} => hc'.pc # "select"
            /\ \A c \in Clients :
                 /\ tcpReceived'[c] # tcpReceived[c] => (bc.pc = "tcpRange" /\ bc'.c = c)
                 /\ wsReceived'[c] # wsReceived[c] => (bc.pc = "wsRange" /\ bc'.c = c)]_vars

\* A TCP pass has written one client and has another to write, while
\* handleClose waits for the lock.
C18_Witness ==
    /\ bc.pc = "tcpRange" /\ passOK # {} /\ tcpClients \ visited # {}
    /\ hc.pc = "lock"

\* C19: the Hub never deadlocks: every client handleClose has received from
\* closeTCPClient or closeWsClient is eventually removed from its set and
\* closed, and every Add or Remove call returns.
C19_CloseChannelClientsRemoved ==
    \A c \in Clients :
        /\ (hc.pc # "select" /\ hc.t = "tcp" /\ hc.c = c)
               ~> (hc.pc = "select" /\ c \notin tcpClients /\ c \in tcpClosed)
        /\ (hc.pc # "select" /\ hc.t = "ws" /\ hc.c = c)
               ~> (hc.pc = "select" /\ c \notin wsClients /\ c \in wsClosed)

\* C19 for as long as the process has not been stopped by the runtime.
ClosedUnlessCrashed ==
    \A c \in Clients :
        /\ (hc.pc # "select" /\ hc.t = "tcp" /\ hc.c = c)
               ~> (crashed \/ (hc.pc = "select" /\ c \notin tcpClients /\ c \in tcpClosed))
        /\ (hc.pc # "select" /\ hc.t = "ws" /\ hc.c = c)
               ~> (crashed \/ (hc.pc = "select" /\ c \notin wsClients /\ c \in wsClosed))

\* C21: at any time at most one inbound-command loop (client.listen) runs
\* for a given client, also after an Add call on a client that is already
\* registered.
C21_OneLoopPerClient ==
    \A c \in Clients : tcpLoops[c] <= 1 /\ wsLoops[c] <= 1

\* ------------------------------------------------------------ claims on the listeners
\* C7: when the listener cannot be bound, ListenTCP (and ListenWS) closes
\* its error channel exactly once and returns, without entering the
\* accept/serve loop and without registering a client.
C7_BindFailureSingleShot ==
    /\ ltcp.bind = "failed" =>
         /\ ltcp.pc = "returned" /\ tcpError = 1
         /\ tcpClients = {} /\ {x \in accepted : x[1] = "tcp"} = {}
    /\ lws.bind = "failed" =>
         /\ lws.pc = "returned" /\ wsError = 1
         /\ wsClients = {} /\ {x \in accepted : x[1] = "ws"} = {}

\* The ListenWS half of C7.
ListenWSBindFailureSingleShot ==
    lws.bind = "failed" =>
        /\ lws.pc = "returned" /\ wsError = 1
        /\ wsClients = {} /\ {x \in accepted : x[1] = "ws"} = {}

\* C20: a failed Accept registers no client: the client ListenTCP passes
\* to AddTCPClient carries the connection of a successful Accept, and no
\* client made from a failed Accept is in the TCP client set.
C20_FailedAcceptRegistersNothing ==
    /\ ltcp.pc \in {"lock", "body"} => ltcp.conn = "conn"
    /\ ltcp.conn = "nil" => ltcp.c \notin tcpClients

\* ------------------------------------------------------------ claims on the Proxy
\* New has finished, one way or another.
NewEnded == pnew.pc \notin {"start", "dial"}

\* C8: New returns an error, and never dials, whenever the info response
\* decodes to a collection that does not hold exactly one descriptor: zero,
\* or two and more.
C8_NotExactlyOneInfoFails ==
    (fetched.kind = "list" /\ Len(fetched.infos) # 1) =>
        /\ dials = 0
        /\ NewEnded => pnew.result = "err"

\* The part of C8 for two descriptors and more.
SeveralInfosFail ==
    (fetched.kind = "list" /\ Len(fetched.infos) > 1) =>
        /\ dials = 0
        /\ NewEnded => pnew.result = "err"

\* C9: with exactly one descriptor and a successful dial, construction
\* succeeds and, before any event is received, Info() equals the fetched
\* descriptor on every field.
C9_InfoMatchesFetched ==
    (fetched.kind = "list" /\ Len(fetched.infos) = 1 /\ conn = "open") =>
        /\ pnew.result = "ok"
        /\ ~pnew.received => Info = fetched.infos[1]

\* C9 on every field but the azimuth-overlap flag.
InfoMatchesFetchedButOverlap ==
    (fetched.kind = "list" /\ Len(fetched.infos) = 1 /\ conn = "open") =>
        /\ pnew.result = "ok"
        /\ ~pnew.received =>
             [Info EXCEPT !.AzimuthOverlap = fetched.infos[1].AzimuthOverlap]
                 = fetched.infos[1]

Count(seq, x) == Cardinality({i \in 1..Len(seq) : seq[i] = x})
One(cond) == IF cond THEN 1 ELSE 0

\* The last frame was a heading event, processed with a handler registered.
HeadingHandled == pnew.received /\ lastEvent.Name = "heading" /\ eventHandler

\* C10 as stated: for every heading event processed with a handler
\* registered, the handler is invoked exactly once for each axis that
\* changed and not at all for an unchanged axis, also when both fields of
\* the axis changed.
C10_OneCallPerChangedAxis ==
    HeadingHandled =>
        /\ Count(lastCalls, "Azimuth") =
             One(prev.azimuth # lastEvent.Status.Azimuth
                 \/ prev.azPreset # lastEvent.Status.AzPreset)
        /\ Count(lastCalls, "Elevation") =
             One(prev.elevation # lastEvent.Status.Elevation
                 \/ prev.elPreset # lastEvent.Status.ElPreset)
        /\ Len(lastCalls) = Count(lastCalls, "Azimuth") + Count(lastCalls, "Elevation")

\* C10 as amended: the handler is invoked exactly once for each changed
\* field, on the field's axis (azimuth and azPreset: Azimuth; elevation
\* and elPreset: Elevation), and not at all for an unchanged axis; an event
\* changing both fields of an axis yields two calls for that axis.
C10_OneCallPerChangedField ==
    HeadingHandled =>
        /\ Count(lastCalls, "Azimuth") =
             One(prev.azimuth # lastEvent.Status.Azimuth)
             + One(prev.azPreset # lastEvent.Status.AzPreset)
        /\ Count(lastCalls, "Elevation") =
             One(prev.elevation # lastEvent.Status.Elevation)
             + One(prev.elPreset # lastEvent.Status.ElPreset)
        /\ Len(lastCalls) = Count(lastCalls, "Azimuth") + Count(lastCalls, "Elevation")

\* A heading event that changed azimuth and azPreset and nothing else.
C10_Witness ==
    /\ HeadingHandled
    /\ prev.azimuth # lastEvent.Status.Azimuth
    /\ prev.azPreset # lastEvent.Status.AzPreset
    /\ prev.elevation = lastEvent.Status.Elevation
    /\ prev.elPreset = lastEvent.Status.ElPreset
    /\ lastCalls = <<"Azimuth", "Azimuth">>

\* The fields on which the cache before the last frame differs from the
\* status of the last event.
Differing ==
    {f \in {"azimuth", "azPreset", "elevation", "elPreset"} :
        \/ f = "azimuth" /\ prev.azimuth # lastEvent.Status.Azimuth
        \/ f = "azPreset" /\ prev.azPreset # lastEvent.Status.AzPreset
        \/ f = "elevation" /\ prev.elevation # lastEvent.Status.Elevation
        \/ f = "elPreset" /\ prev.elPreset # lastEvent.Status.ElPreset}

\* C11: after a heading event is processed the cached azimuth, azPreset,
\* elevation and elPreset equal the event's status and nothing else in the
\* cache has changed; exactly the differing fields were written, the handler
\* was called only for differing fields, and an event equal to the cache
\* writes no field and calls no handler.
C11_CacheFollowsHeadingOnChange ==
    (pnew.received /\ lastEvent.Name = "heading") =>
        /\ r = [prev EXCEPT !.azimuth = lastEvent.Status.Azimuth,
                            !.azPreset = lastEvent.Status.AzPreset,
                            !.elevation = lastEvent.Status.Elevation,
                            !.elPreset = lastEvent.Status.ElPreset]
        /\ lastWrites = Differing
        /\ Len(lastCalls) <= Cardinality(Differing)
        /\ Differing = {} => (r = prev /\ lastWrites = {} /\ lastCalls = <<>>)

\* A heading event equal to the cache, which an earlier event had changed,
\* processed with a handler registered.
C11_Witness ==
    /\ HeadingHandled
    /\ Differing = {}
    /\ r.elevation = 0 /\ r.azPreset = 5
    /\ lastCalls = <<>>

\* C12: a command (SetAzimuth, SetElevation, StopAzimuth, StopElevation,
\* Stop, ExecuteRequest) leaves every cache field unchanged whether its write
\* succeeds or fails; once the Proxy is constructed the cache changes only
\* when the receive loop processes a heading event, and then to that
\* event's values.
C12_CommandsLeaveCache ==
    [][/\ lastReq' # lastReq => r' = r
       /\ (pnew.result = "ok" /\ r' # r) =>
             /\ lastReq' = lastReq
             /\ lastEvent'.Name = "heading"
             /\ lastWrites' # {}
             /\ r' = HeadingCache(r, lastEvent'.Status)]_vars

\* A SetAzimuth whose write succeeded, with the cached preset still not the
\* commanded target.
C12_Witness ==
    /\ lastReq.op = "SetAzimuth" /\ lastReq.ok
    /\ lastReq.req.HasAzimuth
    /\ r.azPreset # lastReq.req.Azimuth
    /\ pnew.received

\* C13: after a successful construction, once the stream has ended the
\* receive loop exits and the completion channel is eventually closed; it is
\* closed at most once and only after the stream ended; from then on the
\* cache never changes and what New returned stays as it was; when
\* construction fails the channel is never closed.
C13_StreamEndClosesDoneOnce ==
    /\ [](done <= 1)
    /\ [](done = 1 => (pnew.result = "ok" /\ conn = "ended"))
    /\ [](pnew.result \in {"err", "panic"} => done = 0)
    /\ (pnew.result = "ok" /\ conn = "ended") ~> (done = 1 /\ pnew.pc = "stale")
    /\ [][done = 1 => (r' = r /\ done' = 1 /\ pnew' = pnew)]_vars

\* The stream ended after events were received, and the channel is closed.
C13_Witness ==
    /\ done = 1 /\ pnew.pc = "stale" /\ pnew.received
    /\ r # prev

\* C14: the frame the Hub writes to a websocket client on Broadcast(s)
\* decodes, in the Proxy, as an Event named "heading" carrying s, and after
\* it is received the Proxy's Azimuth(), Elevation(), AzPreset() and
\* ElPreset() equal the fields of s.
C14_ProxyMirrorsHubFrame ==
    \A s \in HubStatuses :
        (pnew.received /\ lastFrame = MarshalStatus(s)) =>
            /\ lastEvent.Name = "heading"
            /\ lastEvent.Status = s
            /\ r.azimuth = s.Azimuth /\ r.azPreset = s.AzPreset
            /\ r.elevation = s.Elevation /\ r.elPreset = s.ElPreset

\* C22: Status() and Info() never observe a half-applied heading event:
\* the azimuth, azPreset, elevation and elPreset an accessor returns are
\* the cache as of one event boundary, all from before or all from after
\* any heading event; the receive loop applies an event inside one
\* write-lock section and the accessors read under the read lock.
C22_AccessorsSeeWholeEvents ==
    /\ acc.pc \in {"runlock", "done"} => acc.out \in acc.snaps
    /\ rx.pc \in {"assign", "unlock"} => (rw.writer /\ rw.readers = 0)
    /\ acc.pc \in {"read", "runlock"} => (rw.readers > 0 /\ ~rw.writer)

\* An accessor has returned the cache as a heading event that changed two
\* fields or more left it.
C22_Witness ==
    /\ acc.pc = "done" /\ rx.pc = "read"
    /\ Cardinality(lastWrites) >= 2
    /\ acc.out = Heading(r) /\ acc.out # Heading(prev)

\* ------------------------------------------------------------ claims on the TCP payload
\* The three decimal digits of n, for n in 0..999.
ThreeDigits(n) ==
    <<DigitChar(n \div 100), DigitChar((n \div 10) % 10), DigitChar(n % 10)>>

\* C17: for every status with azimuth and elevation in 0..999 the TCP
\* payload is "+0", the azimuth as three zero-padded digits, "+0", the
\* elevation as three zero-padded digits, CR, LF: twelve characters;
\* azimuth 5 with elevation 120 gives +0005+0120 and azimuth 360 with
\* elevation 0 gives +0360+0000.
C17_TCPPayloadFormat ==
    payload # NoPayload =>
        /\ payload.data = <<"+", "0">> \o ThreeDigits(payload.s.Azimuth)
                          \o <<"+", "0">> \o ThreeDigits(payload.s.Elevation)
                          \o <<"\r", "\n">>
        /\ Len(payload.data) = 12
        /\ (payload.s.Azimuth = 5 /\ payload.s.Elevation = 120) =>
             payload.data = <<"+", "0", "0", "0", "5", "+", "0", "1", "2", "0", "\r", "\n">>
        /\ (payload.s.Azimuth = 360 /\ payload.s.Elevation = 0) =>
             payload.data = <<"+", "0", "3", "6", "0", "+", "0", "0", "0", "0", "\r", "\n">>

\* The payload of azimuth 5, elevation 120.
C17_Witness ==
    /\ payload.s.Azimuth = 5 /\ payload.s.Elevation = 120
    /\ payload.data = <<"+", "0", "0", "0", "5", "+", "0", "1", "2", "0", "\r", "\n">>

====
